---- MODULE Spec2Model ----
(***************************************************************************)
(* Model of core/align.py: align_images, which registers the green and     *)
(* blue channel images to the red (reference) channel.                     *)
(*                                                                         *)
(* An image is a record [w, h, px] with px a function from pixel           *)
(* coordinates <<x, y>> (0-based, x < w, y < h) to an intensity.  The      *)
(* cv2 primitives the function calls (ORB.detectAndCompute,                *)
(* BFMatcher.match, estimateAffinePartial2D, warpAffine) are modelled over *)
(* a world of sparse "mark" images: a non-zero pixel is a feature whose    *)
(* descriptor is its intensity, and transforms are integer translations.   *)
(***************************************************************************)
EXTENDS Integers, Sequences, FiniteSets, TLC

VARIABLES
    original_images,  \* the argument: the list [R, G, B]
    aligned,          \* the list built at line 39 and returned at line 78
    keypoints,        \* key points of the channels extracted so far
    descriptors,      \* their descriptors, each None or an array
    i,                \* the channel the alignment loop is at
    matches,          \* the matches of channel i against channel 0
    M,                \* the transform estimated for channel i, or None
    pc,               \* where the invocation stands
    error,            \* the exception raised, or None
    result,           \* the list returned, or None
    events,           \* log of the library calls of the invocation
    ids,              \* the object identities of the arrays in aligned
    remembered,       \* an earlier invocation's input and outcome, or None
    calls,            \* invocations started since the remembered one
    show_combined,    \* main_window.show_combined
    current_channel,  \* main_window.current_channel
    refreshes,        \* number of update_main_display(main_window) calls
    key,              \* event.key() of the last key event, or None
    accepted,         \* the handler called accept() on that event
    returned,         \* what handle_key_press returned for it, or None
    photo,            \* size <<w, h>> of the pixmap of self.photo
    crop_mode,        \* self._crop_mode
    crop_rect,        \* self._crop_rect: None or a rectangle
    saved_crop_rect,  \* self._saved_crop_rect: None or a rectangle
    crop_ratio,       \* self._crop_ratio: None or <<w, h>>
    dragging,         \* self._dragging
    drag_start,       \* self._drag_start: None or a point
    drag_handle,      \* self._drag_handle: None or a handle name
    original_crop_rect, \* self._original_crop_rect: None or a rectangle
    anchor_point,     \* self._anchor_point: None or a point
    fixed_edges,      \* self._fixed_edges: None or the four edges
    op,               \* the ImageViewer method that ran last, or None
    ops               \* number of ImageViewer methods run so far

\* The state of an invocation of align_images.
alignVars == <<original_images, aligned, keypoints, descriptors, i, matches, M,
               pc, error, result, events, ids>>

\* The state of the caller of align_images.
callerVars == <<remembered, calls>>

\* The main window's display state and the last key event handled.
keyVars == <<show_combined, current_channel, refreshes, key, accepted, returned>>

\* The crop state of the ImageViewer.
cropVars == <<photo, crop_mode, crop_rect, saved_crop_rect, crop_ratio, dragging,
              drag_start, drag_handle, original_crop_rect, anchor_point,
              fixed_edges, op, ops>>

uiVars == <<keyVars, cropVars>>

vars == <<alignVars, callerVars, uiVars>>

\* An optional value: Python's None, or a value x.
None == <<>>
Some(x) == <<x>>
Val(o) == o[1]

(***************************************************************************)
(* Bounds of the input catalogue.                                          *)
(***************************************************************************)
\* Marks are laid out on a grid this many columns wide.
GridCols == 7
\* Width and height of the base images.
BaseW == 8
BaseH == 8
\* Extra width of the "wide" images (different dimensions, room for a shift).
ExtraW == 1
\* Number of marks of the sparsely textured image.
FewMarks == 10
\* Invocations counted after the remembered one.
MaxCalls == 2
\* Rows of marks of the reference of the shifted scenes.
ShiftRows == 10
\* Display refreshes counted.
MaxRefreshes == 5
\* Methods of the ImageViewer run in one behaviour.
MaxOps == 6
\* Width and height of the image shown, and the side of a small one.
ImageW == 120
ImageH == 100
SmallImage == 60
\* The mouse positions: these columns and rows of the scene.
MouseXs == {30, 60, 100}
MouseYs == {20, 60, 90}

(***************************************************************************)
(* Program constants.                                                      *)
(***************************************************************************)
\* MIN_MATCHES = 50
MIN_MATCHES == 50
\* cv2.ORB_create(1000)
NFEATURES == 1000
\* self._crop_handle_size = 20
CROP_HANDLE_SIZE == 20
\* self._min_crop_size = 50
MIN_CROP_SIZE == 50

(***************************************************************************)
(* Images.                                                                 *)
(***************************************************************************)
Coords(w, h) == (0 .. w - 1) \X (0 .. h - 1)

Inside(w, h, x, y) == x >= 0 /\ x < w /\ y >= 0 /\ y < h

\* The mark at base-grid cell (bx, by), 0 when the cell holds none of the n marks.
MarkAt(n, bx, by) ==
    IF bx >= 0 /\ bx < GridCols /\ by >= 0 /\ by * GridCols + bx + 1 <= n
    THEN by * GridCols + bx + 1
    ELSE 0

\* An all-black w x h image.
Blank(w, h) == [w |-> w, h |-> h, px |-> [p \in Coords(w, h) |-> 0]]

\* A w x h image with marks 1..n on the base grid, shifted by (dx, dy).
Tex(w, h, n, dx, dy) ==
    [w |-> w, h |-> h,
     px |-> [p \in Coords(w, h) |-> MarkAt(n, p[1] - dx, p[2] - dy)]]

\* A permutation of 1..n (n + 1 coprime to 7).
Perm(n, k) == IF k = 0 THEN 0 ELSE (k * 7) % (n + 1)

\* The marks of Tex(w, h, n, 0, 0) with their intensities permuted: the same
\* descriptors at unrelated places.
Scr(w, h, n) ==
    [w |-> w, h |-> h,
     px |-> [p \in Coords(w, h) |-> Perm(n, MarkAt(n, p[1], p[2]))]]

\* The input images a call may receive.
Catalogue ==
    { Tex(BaseW, BaseH, MIN_MATCHES, 0, 0),
      Tex(BaseW, BaseH, MIN_MATCHES, 1, 0),
      Tex(BaseW, BaseH, MIN_MATCHES - 1, 0, 0),
      Tex(BaseW, BaseH, FewMarks, 0, 0),
      Tex(BaseW + ExtraW, BaseH, MIN_MATCHES + 1, 2, 0),
      Scr(BaseW, BaseH, MIN_MATCHES),
      Blank(BaseW, BaseH),
      Blank(BaseW + ExtraW, BaseH - 1) }

Channels == 0 .. 2

(***************************************************************************)
(* cv2 primitives.                                                         *)
(***************************************************************************)
\* A sequence given by a rule, as the explicit tuple of its elements (each
\* element is then computed once).
Tuple(s) == SubSeq(s, 1, Len(s))

\* Raster order index of pixel k (0-based) of an image of width w.
PixelOf(w, k) == <<k % w, k \div w>>

\* orb.detectAndCompute(img, None): the key points are the non-zero pixels in
\* raster order, at most NFEATURES of them; the descriptor of a key point is
\* its intensity.  The result is <<kp, des>>, both sequences.
DetectFeatures(img) ==
    LET all == Tuple([k \in 1 .. img.w * img.h |-> PixelOf(img.w, k - 1)])
        found == SelectSeq(all, LAMBDA p : img.px[p] # 0)
        kept == IF Len(found) > NFEATURES THEN SubSeq(found, 1, NFEATURES) ELSE found
    IN <<kept, Tuple([k \in 1 .. Len(kept) |-> img.px[kept[k]]])>>

\* The descriptor values detectAndCompute may hand back for an image without
\* key points: None, or an array of size 0.
EmptyDescriptors == {None, Some(<<>>)}

\* HasDescriptors without the size test.
HasDescriptorsNotNone(des) == des # None

\* des is not None and des.size > 0
HasDescriptors(des) == des # None /\ Len(Val(des)) > 0

\* Bit k of descriptor a.
Bit(a, k) == (a \div (2 ^ k)) % 2

\* cv2.NORM_HAMMING on 8-bit descriptors: HammingTable[a + 1][b + 1] is the
\* number of bits in which a and b differ.
HammingTable ==
    Tuple([a \in 1 .. 256 |-> Tuple([b \in 1 .. 256 |->
        Cardinality({k \in 0 .. 7 : Bit(a - 1, k) # Bit(b - 1, k)})])])

Hamming(a, b) == HammingTable[a + 1][b + 1]

\* The least element of a non-empty set of integers.
Least(S) == CHOOSE x \in S : \A y \in S : x <= y

\* The greatest element of a non-empty set of integers.
Greatest(S) == CHOOSE x \in S : \A y \in S : x >= y

\* Index of the descriptor of des nearest to d, the first one among equals.
Nearest(d, des) ==
    LET dist == Tuple([j \in 1 .. Len(des) |-> Hamming(d, des[j])])
        m == Least({dist[j] : j \in 1 .. Len(des)})
    IN Least({j \in 1 .. Len(des) : dist[j] = m})

\* crossCheck=True: with fwd[q] the nearest train index of query q and bwd[t]
\* the nearest query index of train t, the matches are the pairs (q, fwd[q])
\* with bwd[fwd[q]] = q, in query order.
CrossCheck(query, train, fwd, bwd) ==
    LET qs == SelectSeq(Tuple([q \in 1 .. Len(fwd) |-> q]), LAMBDA q : bwd[fwd[q]] = q)
    IN Tuple([k \in 1 .. Len(qs) |->
           [queryIdx |-> qs[k], trainIdx |-> fwd[qs[k]],
            distance |-> Hamming(query[qs[k]], train[fwd[qs[k]]])]])

\* BFMatch without the cross check: every query descriptor is paired with
\* its nearest train descriptor.
BFMatchNoCrossCheck(query, train) ==
    IF Len(query) = 0 \/ Len(train) = 0 THEN <<>>
    ELSE Tuple([q \in 1 .. Len(query) |->
             [queryIdx |-> q, trainIdx |-> Nearest(query[q], train),
              distance |-> Hamming(query[q], train[Nearest(query[q], train)])]])

\* cv2.BFMatcher(cv2.NORM_HAMMING, crossCheck=True).match(query, train).
\* Indices are 1-based here.
BFMatch(query, train) ==
    IF Len(query) = 0 \/ Len(train) = 0 THEN <<>>
    ELSE CrossCheck(query, train,
               Tuple([q \in 1 .. Len(query) |-> Nearest(query[q], train)]),
               Tuple([t \in 1 .. Len(train) |-> Nearest(train[t], query)]))

\* The translation that carries point a onto point b.
Offset(a, b) == <<b[1] - a[1], b[2] - a[2]>>

\* cv2.estimateAffinePartial2D(from, to): a consensus fit.  The 2 x 3 matrix
\* [1 0 tx; 0 1 ty] of the translation most pairs agree on (the first such
\* pair's, among equals), None when no translation explains more than half
\* of the pairs.
EstimateAffinePartial2D(from, to) ==
    IF Len(from) = 0 THEN None
    ELSE LET offs == Tuple([k \in 1 .. Len(from) |-> Offset(from[k], to[k])])
             votes == [t \in {offs[k] : k \in 1 .. Len(from)} |->
                          Cardinality({k \in 1 .. Len(from) : offs[k] = t})]
             most == Greatest({votes[t] : t \in DOMAIN votes})
             t == offs[Least({k \in 1 .. Len(from) : votes[offs[k]] = most})]
         IN IF 2 * most > Len(from)
            THEN Some(<<<<1, 0, t[1]>>, <<0, 1, t[2]>>>>)
            ELSE None

\* WarpAffine that takes m as the map from output to source (WARP_INVERSE_MAP).
WarpAffineInverseMap(src, m, w, h) ==
    [w |-> w, h |-> h,
     px |-> [p \in Coords(w, h) |->
               LET sx == p[1] + m[1][3]
                   sy == p[2] + m[2][3]
               IN IF Inside(src.w, src.h, sx, sy) THEN src.px[<<sx, sy>>] ELSE 0]]

\* cv2.warpAffine(src, M, (w, h)): a w x h image whose pixel (x, y) is the
\* source pixel that M carries onto (x, y), 0 where that lies outside src.
WarpAffine(src, m, w, h) ==
    [w |-> w, h |-> h,
     px |-> [p \in Coords(w, h) |->
               LET sx == p[1] - m[1][3]
                   sy == p[2] - m[2][3]
               IN IF Inside(src.w, src.h, sx, sy) THEN src.px[<<sx, sy>>] ELSE 0]]

\* img.copy(): an array with the same shape and content.
Copy(img) == [w |-> img.w, h |-> img.h, px |-> [p \in DOMAIN img.px |-> img.px[p]]]

(***************************************************************************)
(* align_images(original_images), one step per statement.  Lists are       *)
(* sequences; channel c of a list is its element c + 1.  events is the log  *)
(* of the library calls of the running invocation: <<"extract", c>>,       *)
(* <<"skip", c>>, <<"match", c, len(matches)>>, <<"estimate", c, M>> and   *)
(* <<"warp", c>>.                                                          *)
(***************************************************************************)
Ch(list, c) == list[c + 1]

\* Object identities.  The caller's three input arrays are three objects;
\* img.copy() and cv2.warpAffine each allocate a new array.
InputId(c) == c + 1
CopyId(c) == 3 + c + 1
WarpId(c) == 6 + c

\* InsufficientMatches with the two counts in the wrong order.
InsufficientMatchesSwapped(n) ==
    [type |-> "AlignmentError",
     message |-> <<"Insufficient matches (", MIN_MATCHES, "/", n, ")">>]

\* raise AlignmentError(f"Insufficient matches ({len(matches)}/{MIN_MATCHES})")
InsufficientMatches(n) ==
    [type |-> "AlignmentError",
     message |-> <<"Insufficient matches (", n, "/", MIN_MATCHES, ")">>]

\* EstimationFailed raised with the text of the other failure.
EstimationFailedAsInsufficient(c) ==
    [type |-> "AlignmentError",
     message |-> <<"Insufficient matches (", c, "/", MIN_MATCHES, ")">>]

\* raise AlignmentError(f"Failed to estimate transformation for channel {i}")
EstimationFailed(c) ==
    [type |-> "AlignmentError",
     message |-> <<"Failed to estimate transformation for channel ", c>>]

\* No invocation is running.
InitAlign ==
    /\ original_images = <<>>
    /\ aligned = <<>>
    /\ keypoints = <<>>
    /\ descriptors = <<>>
    /\ i = 0
    /\ matches = <<>>
    /\ M = None
    /\ pc = "idle"
    /\ error = None
    /\ result = None
    /\ events = <<>>
    /\ ids = <<>>

\* The caller has not remembered an invocation.
InitCaller ==
    /\ remembered = None
    /\ calls = 0

\* No key event has been handled; the main window shows channel c, or the
\* combined view if sc.
InitKeys(sc, c) ==
    /\ show_combined = sc
    /\ current_channel = c
    /\ refreshes = 0
    /\ key = None
    /\ accepted = FALSE
    /\ returned = None

\* ImageViewer.__init__: an empty pixmap, crop mode off, nothing dragged.
InitCrop ==
    /\ photo = <<0, 0>>
    /\ crop_mode = FALSE
    /\ crop_rect = None
    /\ saved_crop_rect = None
    /\ crop_ratio = None
    /\ dragging = FALSE
    /\ drag_start = None
    /\ drag_handle = None
    /\ original_crop_rect = None
    /\ anchor_point = None
    /\ fixed_edges = None
    /\ op = None
    /\ ops = 0

Init ==
    /\ InitAlign
    /\ InitCaller
    /\ InitKeys(TRUE, 0)
    /\ InitCrop

\* The caller invokes align_images with a list of three images.
Call(imgs) ==
    /\ pc = "idle"
    /\ original_images' = imgs
    /\ aligned' = <<>>
    /\ keypoints' = <<>>
    /\ descriptors' = <<>>
    /\ i' = 0
    /\ matches' = <<>>
    /\ M' = None
    /\ error' = None
    /\ result' = None
    /\ events' = <<>>
    /\ ids' = <<>>
    /\ pc' = "copy"

\* CopyOriginals without the copies: the list holds the input arrays themselves.
CopyOriginalsAliased ==
    /\ pc = "copy"
    /\ aligned' = original_images
    /\ ids' = [k \in 1 .. Len(original_images) |-> InputId(k - 1)]
    /\ pc' = "detect"
    /\ UNCHANGED <<original_images, keypoints, descriptors, i, matches, M,
                   error, result, events>>

\* aligned = [img.copy() for img in original_images]
CopyOriginals ==
    /\ pc = "copy"
    /\ aligned' = [k \in 1 .. Len(original_images) |-> Copy(original_images[k])]
    /\ ids' = [k \in 1 .. Len(original_images) |-> CopyId(k - 1)]
    /\ pc' = "detect"
    /\ UNCHANGED <<original_images, keypoints, descriptors, i, matches, M,
                   error, result, events>>

\* for img in original_images: kp, des = orb.detectAndCompute(img, None);
\* keypoints.append(kp); descriptors.append(des).  One iteration; after the
\* last one the alignment loop starts with i = 1.
Detect ==
    /\ pc = "detect"
    /\ Len(keypoints) < Len(original_images)
    /\ LET c == Len(keypoints)
           f == DetectFeatures(Ch(original_images, c))
       IN /\ keypoints' = Append(keypoints, f[1])
          /\ \E des \in (IF Len(f[2]) = 0 THEN EmptyDescriptors ELSE {Some(f[2])}) :
                descriptors' = Append(descriptors, des)
          /\ events' = Append(events, <<"extract", c>>)
          /\ IF c + 1 = Len(original_images)
             THEN pc' = "loop" /\ i' = 1
             ELSE pc' = "detect" /\ i' = i
    /\ UNCHANGED <<ids, original_images, aligned, matches, M, error, result>>

\* EnterBody that extracts the reference again at every iteration.
EnterBodyReextract ==
    /\ pc = "loop"
    /\ i < 3
    /\ HasDescriptors(Ch(descriptors, 0))
    /\ HasDescriptors(Ch(descriptors, i))
    /\ events' = Append(events, <<"extract", 0>>)
    /\ pc' = "match"
    /\ UNCHANGED <<ids, original_images, aligned, keypoints, descriptors, i, matches,
                   M, error, result>>

\* for i in range(1, 3): the test of line 54-55 holds, the body is entered.
EnterBody ==
    /\ pc = "loop"
    /\ i < 3
    /\ HasDescriptors(Ch(descriptors, 0))
    /\ HasDescriptors(Ch(descriptors, i))
    /\ pc' = "match"
    /\ UNCHANGED <<ids, original_images, aligned, keypoints, descriptors, i, matches,
                   M, error, result, events>>

\* for i in range(1, 3): the test of line 54-55 fails, channel i is left as
\* the copy made at the start.
SkipChannel ==
    /\ pc = "loop"
    /\ i < 3
    /\ ~(HasDescriptors(Ch(descriptors, 0)) /\ HasDescriptors(Ch(descriptors, i)))
    /\ events' = Append(events, <<"skip", i>>)
    /\ i' = i + 1
    /\ UNCHANGED <<ids, original_images, aligned, keypoints, descriptors, matches,
                   M, pc, error, result>>

\* matches = bf.match(descriptors[0], descriptors[i])
Match ==
    /\ pc = "match"
    /\ matches' = BFMatch(Val(Ch(descriptors, 0)), Val(Ch(descriptors, i)))
    /\ events' = Append(events, <<"match", i, Len(matches')>>)
    /\ pc' = "gate"
    /\ UNCHANGED <<ids, original_images, aligned, keypoints, descriptors, i, M,
                   error, result>>

\* Gate with <= for <.
GateAtFloor ==
    /\ pc = "gate"
    /\ IF Len(matches) <= MIN_MATCHES
       THEN /\ error' = Some(InsufficientMatches(Len(matches)))
            /\ pc' = "raised"
       ELSE /\ error' = error
            /\ pc' = "estimate"
    /\ UNCHANGED <<ids, original_images, aligned, keypoints, descriptors, i, matches,
                   M, result, events>>

\* Gate that goes on to the next channel where it should raise.
GateContinue ==
    /\ pc = "gate"
    /\ IF Len(matches) < MIN_MATCHES
       THEN /\ i' = i + 1
            /\ pc' = "loop"
       ELSE /\ i' = i
            /\ pc' = "estimate"
    /\ UNCHANGED <<ids, original_images, aligned, keypoints, descriptors, matches,
                   M, error, result, events>>

\* if len(matches) < MIN_MATCHES: raise AlignmentError(...)
Gate ==
    /\ pc = "gate"
    /\ IF Len(matches) < MIN_MATCHES
       THEN /\ error' = Some(InsufficientMatches(Len(matches)))
            /\ pc' = "raised"
       ELSE /\ error' = error
            /\ pc' = "estimate"
    /\ UNCHANGED <<ids, original_images, aligned, keypoints, descriptors, i, matches,
                   M, result, events>>

\* Estimate whose estimator keeps state between invocations: once an
\* invocation has been remembered it finds no transform.
EstimateSeeded ==
    /\ pc = "estimate"
    /\ LET src_pts == Tuple([k \in 1 .. Len(matches) |-> Ch(keypoints, 0)[matches[k].queryIdx]])
           dst_pts == Tuple([k \in 1 .. Len(matches) |-> Ch(keypoints, i)[matches[k].trainIdx]])
       IN M' = IF remembered = None THEN EstimateAffinePartial2D(dst_pts, src_pts)
               ELSE None
    /\ events' = Append(events, <<"estimate", i, M'>>)
    /\ pc' = "check"
    /\ UNCHANGED <<ids, original_images, aligned, keypoints, descriptors, i, matches,
                   error, result>>

\* Estimate with the two point lists in the other order.
EstimateSwapped ==
    /\ pc = "estimate"
    /\ LET src_pts == Tuple([k \in 1 .. Len(matches) |-> Ch(keypoints, 0)[matches[k].queryIdx]])
           dst_pts == Tuple([k \in 1 .. Len(matches) |-> Ch(keypoints, i)[matches[k].trainIdx]])
       IN M' = EstimateAffinePartial2D(src_pts, dst_pts)
    /\ events' = Append(events, <<"estimate", i, M'>>)
    /\ pc' = "check"
    /\ UNCHANGED <<ids, original_images, aligned, keypoints, descriptors, i, matches,
                   error, result>>

\* src_pts, dst_pts from the matches; M, _ = cv2.estimateAffinePartial2D(dst_pts, src_pts)
Estimate ==
    /\ pc = "estimate"
    /\ LET src_pts == Tuple([k \in 1 .. Len(matches) |-> Ch(keypoints, 0)[matches[k].queryIdx]])
           dst_pts == Tuple([k \in 1 .. Len(matches) |-> Ch(keypoints, i)[matches[k].trainIdx]])
       IN M' = EstimateAffinePartial2D(dst_pts, src_pts)
    /\ events' = Append(events, <<"estimate", i, M'>>)
    /\ pc' = "check"
    /\ UNCHANGED <<ids, original_images, aligned, keypoints, descriptors, i, matches,
                   error, result>>

\* Apply that stores the warped image one place too low.
ApplyOffByOne ==
    /\ pc = "check"
    /\ IF M = None
       THEN /\ error' = Some(EstimationFailed(i))
            /\ pc' = "raised"
            /\ UNCHANGED <<aligned, i, events, ids>>
       ELSE /\ aligned' = [aligned EXCEPT ![i] =
                              WarpAffine(Ch(original_images, i), Val(M),
                                         Ch(original_images, 0).w,
                                         Ch(original_images, 0).h)]
            /\ events' = Append(events, <<"warp", i>>)
            /\ ids' = [ids EXCEPT ![i + 1] = WarpId(i)]
            /\ i' = i + 1
            /\ pc' = "loop"
            /\ error' = error
    /\ UNCHANGED <<original_images, keypoints, descriptors, matches, M, result>>

\* Apply that keeps the unaligned copy and goes on where it should raise.
ApplyFallback ==
    /\ pc = "check"
    /\ IF M = None
       THEN /\ aligned' = aligned
            /\ events' = events
            /\ ids' = ids
       ELSE /\ aligned' = [aligned EXCEPT ![i + 1] =
                              WarpAffine(Ch(original_images, i), Val(M),
                                         Ch(original_images, 0).w,
                                         Ch(original_images, 0).h)]
            /\ events' = Append(events, <<"warp", i>>)
            /\ ids' = [ids EXCEPT ![i + 1] = WarpId(i)]
    /\ i' = i + 1
    /\ pc' = "loop"
    /\ UNCHANGED <<original_images, keypoints, descriptors, matches, M, error,
                   result>>

\* if M is None: raise AlignmentError(...)
\* else: aligned[i] = cv2.warpAffine(original_images[i], M, (shape[1], shape[0]))
Apply ==
    /\ pc = "check"
    /\ IF M = None
       THEN /\ error' = Some(EstimationFailed(i))
            /\ pc' = "raised"
            /\ UNCHANGED <<aligned, i, events, ids>>
       ELSE /\ aligned' = [aligned EXCEPT ![i + 1] =
                              WarpAffine(Ch(original_images, i), Val(M),
                                         Ch(original_images, 0).w,
                                         Ch(original_images, 0).h)]
            /\ events' = Append(events, <<"warp", i>>)
            /\ ids' = [ids EXCEPT ![i + 1] = WarpId(i)]
            /\ i' = i + 1
            /\ pc' = "loop"
            /\ error' = error
    /\ UNCHANGED <<original_images, keypoints, descriptors, matches, M, result>>

\* return aligned
Return ==
    /\ pc = "loop"
    /\ i >= 3
    /\ result' = Some(aligned)
    /\ pc' = "returned"
    /\ UNCHANGED <<ids, original_images, aligned, keypoints, descriptors, i, matches,
                   M, error, events>>

\* The call is over: the caller has the list or the exception, the frame and
\* everything built in it are dropped.
CallEnds ==
    /\ pc \in {"returned", "raised", "used"}
    /\ original_images' = <<>>
    /\ aligned' = <<>>
    /\ keypoints' = <<>>
    /\ descriptors' = <<>>
    /\ i' = 0
    /\ matches' = <<>>
    /\ M' = None
    /\ error' = None
    /\ result' = None
    /\ events' = <<>>
    /\ ids' = <<>>
    /\ pc' = "idle"

\* The triples of catalogue images.
Triples == {<<r, g, b>> : r \in Catalogue, g \in Catalogue, b \in Catalogue}

\* The steps of invocations of align_images on the triples of T.
Align(T) ==
    \/ (\E imgs \in T : Call(imgs)) /\ UNCHANGED <<callerVars, uiVars>>
    \/ CopyOriginals /\ UNCHANGED <<callerVars, uiVars>>
    \/ Detect /\ UNCHANGED <<callerVars, uiVars>>
    \/ EnterBody /\ UNCHANGED <<callerVars, uiVars>>
    \/ SkipChannel /\ UNCHANGED <<callerVars, uiVars>>
    \/ Match /\ UNCHANGED <<callerVars, uiVars>>
    \/ Gate /\ UNCHANGED <<callerVars, uiVars>>
    \/ Estimate /\ UNCHANGED <<callerVars, uiVars>>
    \/ Apply /\ UNCHANGED <<callerVars, uiVars>>
    \/ Return /\ UNCHANGED <<callerVars, uiVars>>
    \/ CallEnds /\ UNCHANGED <<callerVars, uiVars>>

Next == Align(Triples)

Spec == Init /\ [][Next]_vars

(***************************************************************************)
(* Shifted scenes: the reference is a field of marks, a target is the      *)
(* reference moved by a whole number of pixels, in a frame that cuts off   *)
(* the last row of marks, or an image without any mark.                    *)
(***************************************************************************)
\* The shift of Scenario B.
ScenarioB == <<5, 3>>

\* The shifts applied to the reference; <<0, 0>> is Scenario A.
Shifts == {ScenarioB, <<2, 1>>, <<0, 0>>, <<-1, 0>>}

ShiftMarks == GridCols * ShiftRows

ShiftReference == Tex(GridCols + 1, ShiftRows, ShiftMarks, 0, 0)

\* The reference moved by d.
ShiftTarget(d) ==
    Tex(GridCols + 1 + d[1], ShiftRows + d[2] - 1, ShiftMarks, d[1], d[2])

ShiftTargets == {ShiftTarget(d) : d \in Shifts} \cup {Blank(GridCols + 1, ShiftRows)}

ShiftTriples == {<<ShiftReference, g, b>> : g \in ShiftTargets, b \in ShiftTargets}

NextShift == Align(ShiftTriples)

SpecShift == Init /\ [][NextShift]_vars

(***************************************************************************)
(* The caller's side: invocations one after the other, one of them         *)
(* remembered for comparison with the later ones, and writes to the arrays *)
(* of a returned list.                                                     *)
(***************************************************************************)
\* The images the repeated invocations receive: enough texture, too little,
\* and none.
CallerCatalogue ==
    { Tex(BaseW, BaseH, MIN_MATCHES, 0, 0),
      Tex(BaseW, BaseH, FewMarks, 0, 0),
      Blank(BaseW, BaseH) }

CallerTriples ==
    {<<r, g, b>> : r \in CallerCatalogue, g \in CallerCatalogue, b \in CallerCatalogue}

\* One more invocation has started after the remembered one.
CountCall ==
    /\ calls' = IF remembered = None THEN calls
                ELSE IF calls < MaxCalls THEN calls + 1 ELSE calls
    /\ remembered' = remembered

\* The caller keeps the input and the outcome of the invocation that has just
\* ended, to compare later invocations with.
Remember ==
    /\ pc \in {"returned", "raised"}
    /\ remembered = None
    /\ remembered' = Some([input |-> original_images, result |-> result,
                           error |-> error])
    /\ calls' = 0
    /\ UNCHANGED alignVars

\* The array img after a write to its pixel p.
Written(img, p) == [img EXCEPT !.px[p] = 255 - @]

\* The caller writes to pixel (0, 0) of array c of the returned list.  The
\* write shows in every array that is the same object.
CallerWrites(c) ==
    /\ pc = "returned"
    /\ result' = Some([k \in 1 .. Len(Val(result)) |->
                          IF ids[k] = ids[c + 1]
                          THEN Written(Val(result)[k], <<0, 0>>)
                          ELSE Val(result)[k]])
    /\ original_images' = [k \in 1 .. Len(original_images) |->
                              IF InputId(k - 1) = ids[c + 1]
                              THEN Written(original_images[k], <<0, 0>>)
                              ELSE original_images[k]]
    /\ pc' = "used"
    /\ UNCHANGED <<aligned, keypoints, descriptors, i, matches, M, error,
                   events, ids>>

NextCaller ==
    \/ (\E imgs \in CallerTriples : Call(imgs)) /\ CountCall /\ UNCHANGED uiVars
    \/ CopyOriginals /\ UNCHANGED <<callerVars, uiVars>>
    \/ Detect /\ UNCHANGED <<callerVars, uiVars>>
    \/ EnterBody /\ UNCHANGED <<callerVars, uiVars>>
    \/ SkipChannel /\ UNCHANGED <<callerVars, uiVars>>
    \/ Match /\ UNCHANGED <<callerVars, uiVars>>
    \/ Gate /\ UNCHANGED <<callerVars, uiVars>>
    \/ Estimate /\ UNCHANGED <<callerVars, uiVars>>
    \/ Apply /\ UNCHANGED <<callerVars, uiVars>>
    \/ Return /\ UNCHANGED <<callerVars, uiVars>>
    \/ CallEnds /\ UNCHANGED <<callerVars, uiVars>>
    \/ Remember /\ UNCHANGED uiVars
    \/ (\E c \in Channels : CallerWrites(c)) /\ UNCHANGED <<callerVars, uiVars>>

SpecCaller == Init /\ [][NextCaller]_vars

(***************************************************************************)
(* Properties.                                                             *)
(***************************************************************************)
Events == {events[k] : k \in 1 .. Len(events)}

\* Input and output channel c of the running invocation.
In(c) == Ch(original_images, c)
Out(c) == Ch(Val(result), c)

Targets == {1, 2}

Skipped(c) == <<"skip", c>> \in Events
Warped(c) == <<"warp", c>> \in Events
Matched(c) == \E e \in Events : e[1] = "match" /\ e[2] = c
Estimated(c) == \E e \in Events : e[1] = "estimate" /\ e[2] = c

\* The numbers of matches logged for channel c (none or one).
MatchCounts(c) == {e[3] : e \in {e \in Events : e[1] = "match" /\ e[2] = c}}

\* The estimator handed back None for channel c.
NoTransform(c) == <<"estimate", c, None>> \in Events

SameSize(a, b) == a.w = b.w /\ a.h = b.h

\* C1: whenever align_images returns, output channel 0 equals input channel
\* 0, pixel for pixel and in width and height.
C1_ReferenceUnchanged ==
    pc = "returned" => Out(0) = In(0)

\* C1 witness: a return after G was resampled to a different image and B was
\* passed through.
C1_Witness ==
    /\ pc = "returned"
    /\ Warped(1) /\ Skipped(2)
    /\ Out(1) # In(1)
    /\ Out(0) = In(0)

\* C2 as claimed: whenever align_images returns, each of the three output
\* channels has the width and height of input channel 0.
C2_AllOutputsReferenceSize ==
    pc = "returned" => \A c \in Channels : SameSize(Out(c), In(0))

\* C3 as claimed: align_images never returns with one of G and B resampled
\* and the other an untransformed copy of its input.
C3_NoPartialAlignment ==
    pc = "returned" =>
        ~ \E c, d \in Targets : Warped(c) /\ Skipped(d) /\ Out(d) = In(d)

\* C4: a channel whose match count is below MIN_MATCHES is never handed to
\* the estimator and its gate raises the insufficient-matches error; a count
\* of MIN_MATCHES or more never raises that error.
C4_CorrespondenceFloor ==
    \A c \in Targets : \A n \in MatchCounts(c) :
        /\ n < MIN_MATCHES =>
              /\ ~Estimated(c)
              /\ ~Warped(c)
              /\ \/ pc = "gate"
                 \/ /\ pc = "raised"
                    /\ i = c
                    /\ error # None
                    /\ Val(error).message[1] = "Insufficient matches ("
        /\ n >= MIN_MATCHES =>
              ~(/\ pc = "raised"
                /\ i = c
                /\ Val(error).message[1] = "Insufficient matches (")

\* C4 witness: G passed the gate with exactly 50 matches and was estimated, B
\* was stopped with 49.
C4_Witness ==
    /\ pc = "raised"
    /\ MatchCounts(1) = {50} /\ Estimated(1)
    /\ MatchCounts(2) = {49} /\ ~Estimated(2)

\* C5: the insufficient-matches error carries the number of matches found
\* for the failing channel and the floor 50.
C5_ErrorCarriesCounts ==
    (pc = "raised" /\ ~Estimated(i)) =>
        \A n \in MatchCounts(i) :
            Val(error).message = <<"Insufficient matches (", n, "/", 50, ")">>

\* C5 witness: 10 matches give actual 10, required 50.
C5_Witness ==
    /\ pc = "raised"
    /\ MatchCounts(i) = {10}
    /\ Val(error).message[2] = 10
    /\ Val(error).message[4] = 50

\* C6: when the estimator returns None for a channel, the call raises the
\* estimation error naming that channel; the channel is not resampled and no
\* list is returned.
C6_EstimationFailureRaises ==
    \A c \in Targets : NoTransform(c) =>
        /\ ~Warped(c)
        /\ result = None
        /\ \/ pc = "check" /\ i = c
           \/ /\ pc = "raised"
              /\ i = c
              /\ error # None
              /\ Val(error).message =
                    <<"Failed to estimate transformation for channel ", c>>

\* C6 witness: the floor was met for B, the estimator returned None and the
\* call raised, after G had been resampled.
C6_Witness ==
    /\ pc = "raised"
    /\ Warped(1)
    /\ NoTransform(2)
    /\ \A n \in MatchCounts(2) : n >= MIN_MATCHES
\* The running invocation has stopped on the gate of channel c.
TooFewMatches(c) == \E n \in MatchCounts(c) : n < MIN_MATCHES

\* C7 as claimed: the estimation failure is raised with an error type other
\* than the type raised for insufficient matches.
C7_DistinctErrorTypes ==
    (pc = "raised" /\ NoTransform(i)) =>
        \A n \in 0 .. MIN_MATCHES - 1 : Val(error).type # InsufficientMatches(n).type

\* C7 as amended: both failures are raised with the one type AlignmentError
\* and differ in the message text only: "Insufficient matches (" begins the
\* one, "Failed to estimate transformation for channel " the other.
C7_SameTypeDistinctMessages ==
    pc = "raised" =>
        /\ error # None
        /\ Val(error).type = "AlignmentError"
        /\ TooFewMatches(i) <=> Val(error).message[1] = "Insufficient matches ("
        /\ NoTransform(i) <=>
              Val(error).message[1] = "Failed to estimate transformation for channel "
        /\ TooFewMatches(i) # NoTransform(i)

\* C7 witness: an estimation failure raised as an AlignmentError.
C7_Witness ==
    /\ pc = "raised"
    /\ NoTransform(i)
    /\ Val(error).type = "AlignmentError"
    /\ Val(error).message[1] # "Insufficient matches ("

\* C8: once a channel has failed (too few matches, or no transform), no list
\* is returned, nothing more is done for any channel, and the raise leaves
\* the exception with the caller.
C8_FailureAborts ==
    \A c \in Targets : (TooFewMatches(c) \/ NoTransform(c)) =>
        /\ result = None
        /\ pc \in {"gate", "check", "raised"}
        /\ i = c
        /\ pc = "raised" => error # None

\* C8 witness: G was resampled, B failed, and the call raised without a list.
C8_Witness ==
    /\ pc = "raised"
    /\ Warped(1)
    /\ Ch(aligned, 1) # In(1)
    /\ TooFewMatches(2)
    /\ result = None

\* All three channels have been through the extractor.
Extracted == Len(descriptors) = 3

\* The extractor yielded nothing: None, or an array without rows.
NoDescriptors(des) == des = None \/ des = Some(<<>>)

\* The reference or channel c came out of the extractor without descriptors.
ZeroDescriptors(c) ==
    /\ Extracted
    /\ NoDescriptors(Ch(descriptors, 0)) \/ NoDescriptors(Ch(descriptors, c))

\* C9 as claimed: a call in which the reference or a target channel has no
\* descriptors does not return a list.
C9_ZeroDescriptorsFail ==
    pc = "returned" => \A c \in Targets : ~ZeroDescriptors(c)

\* C10: a channel without descriptors on one side is neither matched nor
\* estimated nor resampled, no error is raised for it, and at the return its
\* output equals its input, in the input's own width and height.
C10_ZeroDescriptorPassThrough ==
    \A c \in Targets : ZeroDescriptors(c) =>
        /\ ~Matched(c) /\ ~Estimated(c) /\ ~Warped(c)
        /\ ~(pc = "raised" /\ i = c)
        /\ pc = "returned" => (Skipped(c) /\ Out(c) = In(c))

\* C10 witness: G, of another size than the reference and without
\* descriptors (None or empty), was passed through while B was resampled.
C10_Witness ==
    /\ pc = "returned"
    /\ ZeroDescriptors(1)
    /\ Ch(descriptors, 1) = Some(<<>>)
    /\ ~SameSize(In(1), In(0))
    /\ Out(1) = In(1)
    /\ Warped(2)

\* The descriptors of the reference and of the channel the loop is at.
RefDescriptors == Val(Ch(descriptors, 0))
TgtDescriptors == Val(Ch(descriptors, i))

\* The invocation holds the matches of channel i.
HoldsMatches == pc \in {"gate", "estimate", "check"}

\* C11: every match (r, t) of the channel being aligned is mutual under the
\* Hamming distance: no target descriptor is nearer to r than t and no
\* reference descriptor is nearer to t than r; no reference index and no
\* target index occurs in two matches; and the number of matches is at most
\* the number of reference descriptors and at most the number of target
\* descriptors.
C11_MutualMatching ==
    HoldsMatches =>
        /\ \A k \in 1 .. Len(matches) :
              LET r == matches[k].queryIdx
                  t == matches[k].trainIdx
                  d == Hamming(RefDescriptors[r], TgtDescriptors[t])
              IN /\ \A t2 \in 1 .. Len(TgtDescriptors) :
                        d <= Hamming(RefDescriptors[r], TgtDescriptors[t2])
                 /\ \A r2 \in 1 .. Len(RefDescriptors) :
                        d <= Hamming(RefDescriptors[r2], TgtDescriptors[t])
        /\ \A k, l \in 1 .. Len(matches) :
              k # l => /\ matches[k].queryIdx # matches[l].queryIdx
                       /\ matches[k].trainIdx # matches[l].trainIdx
        /\ Len(matches) <= Len(RefDescriptors)
        /\ Len(matches) <= Len(TgtDescriptors)

\* C11 witness: the matcher has run and left a reference descriptor without a
\* match although every reference descriptor has a nearest target descriptor.
C11_Witness ==
    /\ pc = "gate"
    /\ Len(matches) > 0
    /\ Len(matches) < Len(RefDescriptors)
    /\ Len(matches) = Len(TgtDescriptors)

\* The places in the log of the events of one kind for channel c.
Positions(kind, c) ==
    {k \in 1 .. Len(events) : events[k][1] = kind /\ events[k][2] = c}

\* The places in the log of the matching, estimation and resampling of c.
WorkOn(c) == Positions("match", c) \cup Positions("estimate", c) \cup Positions("warp", c)

\* Every place of A comes before every place of B.
AllBefore(A, B) == \A a \in A : \A b \in B : a < b

\* C20: within one invocation no channel is extracted twice, and once the
\* extraction loop is over each has been extracted exactly once; every
\* extraction comes before every matching; when B is matched, G has been
\* skipped or matched, estimated and resampled, all before B's matching; and
\* when the call has raised for G nothing was matched, estimated or resampled
\* for B.
C20_PipelineOrder ==
    /\ \A c \in Channels : Cardinality(Positions("extract", c)) <= 1
    /\ pc \notin {"idle", "copy", "detect"} =>
          \A c \in Channels : Cardinality(Positions("extract", c)) = 1
    /\ \A c \in Channels : \A d \in Targets :
          AllBefore(Positions("extract", c), WorkOn(d))
    /\ (WorkOn(1) \cup WorkOn(2)) # {} =>
          \A c \in Channels : Positions("extract", c) # {}
    /\ Positions("match", 2) # {} =>
          /\ AllBefore(WorkOn(1) \cup Positions("skip", 1), Positions("match", 2))
          /\ \/ Skipped(1)
             \/ Matched(1) /\ Estimated(1) /\ Warped(1)
    /\ \A c \in Targets :
          /\ AllBefore(Positions("match", c), Positions("estimate", c))
          /\ AllBefore(Positions("estimate", c), Positions("warp", c))
          /\ Cardinality(Positions("match", c)) <= 1
          /\ Cardinality(Positions("estimate", c)) <= 1
          /\ Cardinality(Positions("warp", c)) <= 1
    /\ (pc = "raised" /\ i = 1) => WorkOn(2) = {}

\* C20 witness: a return after both G and B were matched, estimated and
\* resampled, the log holding the three extractions, then G's three steps,
\* then B's.
C20_Witness ==
    /\ pc = "returned"
    /\ Len(events) = 9
    /\ Warped(1) /\ Warped(2)
    /\ AllBefore(WorkOn(1), WorkOn(2))

\* C20 witness of the failing case: the call raised for G.
C20_RaisedForG ==
    /\ pc = "raised"
    /\ i = 1
    /\ Matched(1)
    /\ WorkOn(2) = {}

\* The identities of the caller's input arrays.
InputIds == {InputId(c) : c \in Channels}

\* C19: from the call to its end, returning or raising, and through the
\* caller's later writes to the returned arrays, the list original_images and
\* the content of its arrays do not change; and no array of a returned list
\* is one of the input arrays.
C19_InputsUntouched ==
    [][/\ (pc # "idle" /\ pc' # "idle") => original_images' = original_images
       /\ pc' = "returned" => \A k \in 1 .. Len(ids') : ids'[k] \notin InputIds]_vars

\* C19 witness: the caller has written to the returned B array, which was
\* passed through as a copy; the input B array does not show the write.
C19_Witness ==
    /\ pc = "used"
    /\ Skipped(2)
    /\ Out(2) = Written(In(2), <<0, 0>>)
    /\ Out(2) # In(2)

Translation(d) == <<<<1, 0, d[1]>>, <<0, 1, d[2]>>>>

\* The inverse of a translation matrix.
InverseOf(m) == <<<<1, 0, 0 - m[1][3]>>, <<0, 1, 0 - m[2][3]>>>>

\* tgt shows the content of ref moved by d: T = Translation(d) applied to ref.
IsShiftOf(tgt, ref, d) ==
    \A p \in Coords(tgt.w, tgt.h) :
        tgt.px[p] = IF Inside(ref.w, ref.h, p[1] - d[1], p[2] - d[2])
                    THEN ref.px[<<p[1] - d[1], p[2] - d[2]>>]
                    ELSE 0

\* The transforms logged for channel c (none or one).
Transforms(c) == {e[3] : e \in {e \in Events : e[1] = "estimate" /\ e[2] = c}}

\* The pixels of the reference frame whose source under the shift d lies
\* inside the target tgt.
Sourced(tgt, d) ==
    {p \in Coords(In(0).w, In(0).h) : Inside(tgt.w, tgt.h, p[1] + d[1], p[2] + d[2])}

\* C13: when channel c is the reference with the translation T applied and
\* the estimator has run for it (the floor was met, every match an inlier),
\* the estimated transform is the inverse of T; and once c is resampled, the
\* resampled image equals the reference at every pixel whose source lies
\* inside the target.
C13_RoundTrip ==
    \A c \in Targets : \A d \in Shifts :
        (Estimated(c) /\ IsShiftOf(In(c), In(0), d)) =>
            /\ Transforms(c) = {Some(InverseOf(Translation(d)))}
            /\ Warped(c) =>
                  \A p \in Sourced(In(c), d) : Ch(aligned, c).px[p] = In(0).px[p]

\* C13 witness: G, the reference moved by (2, 1), has been resampled; the
\* result shows the reference's marks where the source lies inside the
\* target, and differs from the reference where it does not.
C13_Witness ==
    /\ pc = "returned"
    /\ IsShiftOf(In(1), In(0), <<2, 1>>)
    /\ Warped(1)
    /\ \E p \in Sourced(In(1), <<2, 1>>) : In(0).px[p] # 0 /\ Out(1).px[p] = In(0).px[p]
    /\ \E p \in Coords(In(0).w, In(0).h) \ Sourced(In(1), <<2, 1>>) :
          Out(1).px[p] # In(0).px[p]

\* C14 as claimed: when channel c is the reference shifted by (5, 3) and at
\* least 50 matches exist, the transform recovered for c is the translation
\* by (5, 3).
C14_RecoversShift ==
    \A c \in Targets :
        (/\ Estimated(c)
         /\ IsShiftOf(In(c), In(0), ScenarioB)
         /\ \A n \in MatchCounts(c) : n >= MIN_MATCHES) =>
            Transforms(c) = {Some(Translation(ScenarioB))}

\* C14 as amended: when channel c is the reference shifted by (5, 3) and at
\* least 50 matches exist, the transform recovered for c has translation
\* (-5, -3), unit scale and zero rotation.
C14_RecoversInverseShift ==
    \A c \in Targets :
        (/\ Estimated(c)
         /\ IsShiftOf(In(c), In(0), ScenarioB)
         /\ \A n \in MatchCounts(c) : n >= MIN_MATCHES) =>
            Transforms(c) = {Some(<<<<1, 0, -5>>, <<0, 1, -3>>>>)}

\* C14 witness: the estimator has run for B, the reference shifted by (5, 3),
\* on at least 50 matches.
C14_Witness ==
    /\ pc = "check"
    /\ i = 2
    /\ IsShiftOf(In(2), In(0), <<5, 3>>)
    /\ \E n \in MatchCounts(2) : n >= MIN_MATCHES
    /\ M # None

(***************************************************************************)
(* handlers/keyboard.py: handle_key_press(main_window, event).             *)
(***************************************************************************)
\* The keys an event may carry: the four that are bound and some that are
\* not.
Keys == {"Key_1", "Key_2", "Key_3", "Key_A", "Key_4", "Key_B", "Key_Escape"}

\* handle_key_press in which key A also resets the channel.
HandleKeyPressAResets(k) ==
    /\ refreshes < MaxRefreshes
    /\ key' = Some(k)
    /\ IF k \in {"Key_1", "Key_2", "Key_3", "Key_A"}
       THEN /\ show_combined' = (k = "Key_A")
            /\ current_channel' = (CASE k = "Key_1" -> 0
                                     [] k = "Key_2" -> 1
                                     [] k = "Key_3" -> 2
                                     [] k = "Key_A" -> 0)
            /\ refreshes' = refreshes + 1
            /\ accepted' = TRUE
            /\ returned' = Some(TRUE)
       ELSE /\ returned' = Some(FALSE)
            /\ accepted' = FALSE
            /\ UNCHANGED <<show_combined, current_channel, refreshes>>

\* handle_key_press(main_window, event) with event.key() = k.
HandleKeyPress(k) ==
    /\ refreshes < MaxRefreshes
    /\ key' = Some(k)
    /\ IF k = "Key_1"
       THEN /\ show_combined' = FALSE
            /\ current_channel' = 0
            /\ refreshes' = refreshes + 1
            /\ accepted' = TRUE
            /\ returned' = Some(TRUE)
       ELSE IF k = "Key_2"
       THEN /\ show_combined' = FALSE
            /\ current_channel' = 1
            /\ refreshes' = refreshes + 1
            /\ accepted' = TRUE
            /\ returned' = Some(TRUE)
       ELSE IF k = "Key_3"
       THEN /\ show_combined' = FALSE
            /\ current_channel' = 2
            /\ refreshes' = refreshes + 1
            /\ accepted' = TRUE
            /\ returned' = Some(TRUE)
       ELSE IF k = "Key_A"
       THEN /\ show_combined' = TRUE
            /\ current_channel' = current_channel
            /\ refreshes' = refreshes + 1
            /\ accepted' = TRUE
            /\ returned' = Some(TRUE)
       ELSE /\ returned' = Some(FALSE)
            /\ accepted' = FALSE
            /\ UNCHANGED <<show_combined, current_channel, refreshes>>

NextKeys ==
    (\E k \in Keys : HandleKeyPress(k)) /\ UNCHANGED <<alignVars, callerVars, cropVars>>

\* The handler may find the main window in any display state.
InitAnyDisplay ==
    /\ InitAlign
    /\ InitCaller
    /\ \E sc \in BOOLEAN : \E c \in Channels : InitKeys(sc, c)
    /\ InitCrop

SpecKeys == InitAnyDisplay /\ [][NextKeys]_vars

\* C15: a step that handles key 1, 2 or 3 sets current_channel to 0, 1 or 2
\* and show_combined to False; a step that handles key A sets show_combined
\* to True and keeps current_channel; each of the four refreshes the display
\* once, accepts the event and returns True.  A step that handles any other
\* key returns False, does not accept the event, and changes neither
\* current_channel nor show_combined, nor refreshes the display.
C15_KeyPress ==
    [][/\ key' = Some("Key_1") => current_channel' = 0 /\ show_combined' = FALSE
       /\ key' = Some("Key_2") => current_channel' = 1 /\ show_combined' = FALSE
       /\ key' = Some("Key_3") => current_channel' = 2 /\ show_combined' = FALSE
       /\ key' = Some("Key_A") =>
              current_channel' = current_channel /\ show_combined' = TRUE
       /\ key' \in {Some("Key_1"), Some("Key_2"), Some("Key_3"), Some("Key_A")} =>
              /\ refreshes' = refreshes + 1
              /\ accepted' = TRUE
              /\ returned' = Some(TRUE)
       /\ key' \notin {Some("Key_1"), Some("Key_2"), Some("Key_3"), Some("Key_A")} =>
              /\ returned' = Some(FALSE)
              /\ accepted' = FALSE
              /\ UNCHANGED <<current_channel, show_combined, refreshes>>]_vars

\* C15 witness: key A was handled while channel 2 was current, after at
\* least one other handled key; the combined view is on and the channel is
\* still 2.
C15_Witness ==
    /\ key = Some("Key_A")
    /\ refreshes >= 2
    /\ show_combined = TRUE
    /\ current_channel = 2
    /\ accepted = TRUE
    /\ returned = Some(TRUE)

(***************************************************************************)
(* widgets/image_viewer.py: the crop rectangle of the ImageViewer.         *)
(*                                                                         *)
(* A QRect is a record [x, y, w, h] of integers; its right() is x + w - 1  *)
(* and its bottom() y + h - 1.  A QRectF with the same fields has right()  *)
(* x + w and bottom() y + h.  Points are pairs <<x, y>>; mouse positions   *)
(* are whole scene coordinates.  The bounding rectangle of the photo is    *)
(* the QRectF (0, 0, photo[1], photo[2]).                                  *)
(***************************************************************************)
QRect(x, y, w, h) == [x |-> x, y |-> y, w |-> w, h |-> h]

Right(r) == r.x + r.w - 1
Bottom(r) == r.y + r.h - 1

\* QRect.setRight, setBottom: the opposite edge stays.
SetRight(r, v) == [r EXCEPT !.w = v - r.x + 1]
SetBottom(r, v) == [r EXCEPT !.h = v - r.y + 1]

\* QRect.translate(dx, dy)
Translated(r, dx, dy) == [r EXCEPT !.x = r.x + dx, !.y = r.y + dy]

\* QRect.isValid()
IsValid(r) == r.w > 0 /\ r.h > 0

\* QRect.isNull()
IsNull(r) == r.w = 0 /\ r.h = 0

\* Python's truth value of self._crop_rect or self._saved_crop_rect: false
\* for None and for a QRect that is not valid.
Truthy(o) == o # None /\ IsValid(Val(o))

Min(a, b) == IF a < b THEN a ELSE b
Max(a, b) == IF a > b THEN a ELSE b

\* int(n / d) for d > 0: the quotient cut towards zero.
Trunc(n, d) == IF n >= 0 THEN n \div d ELSE 0 - ((0 - n) \div d)

\* int(round(n / d)) for d > 0: Python rounds a half to the even neighbour.
RoundHalfEven(n, d) ==
    LET q == n \div d
        r == n % d
    IN IF 2 * r < d THEN q
       ELSE IF 2 * r > d THEN q + 1
       ELSE IF q % 2 = 0 THEN q ELSE q + 1

\* One side of QRect & QRect: the span <<lo, hi>> of a side that starts at a
\* and is n long.
Span(a, n) == IF n < 0 THEN <<a + n - 1, a>> ELSE <<a, a + n - 1>>

\* QRect.intersected(other)
Intersected(r, o) ==
    LET h1 == Span(r.x, r.w)
        h2 == Span(o.x, o.w)
        v1 == Span(r.y, r.h)
        v2 == Span(o.y, o.h)
    IN IF IsNull(r) \/ IsNull(o) THEN QRect(0, 0, 0, 0)
       ELSE IF h1[1] > h2[2] \/ h2[1] > h1[2] THEN QRect(0, 0, 0, 0)
       ELSE IF v1[1] > v2[2] \/ v2[1] > v1[2] THEN QRect(0, 0, 0, 0)
       ELSE QRect(Max(h1[1], h2[1]), Max(v1[1], v2[1]),
                  Min(h1[2], h2[2]) - Max(h1[1], h2[1]) + 1,
                  Min(v1[2], v2[2]) - Max(v1[1], v2[1]) + 1)

\* QRectF(x, y, w, h).contains(p): the edges count, a rectangle without
\* width or height contains nothing.
ContainsF(x, y, w, h, p) ==
    LET l == IF w < 0 THEN x + w ELSE x
        r == IF w < 0 THEN x ELSE x + w
        t == IF h < 0 THEN y + h ELSE y
        b == IF h < 0 THEN y ELSE y + h
    IN /\ l # r /\ t # b
       /\ p[1] >= l /\ p[1] <= r
       /\ p[2] >= t /\ p[2] <= b

\* QRect.contains(p)
Contains(r, p) ==
    LET h == Span(r.x, r.w)
        v == Span(r.y, r.h)
    IN /\ ~IsNull(r)
       /\ p[1] >= h[1] /\ p[1] <= h[2]
       /\ p[2] >= v[1] /\ p[2] <= v[2]

\* a / target_ratio and a * target_ratio as int(...), and as int(round(...)),
\* for the ratio <<w, h>>.
IntDivRatio(a, ratio) == Trunc(a * ratio[2], ratio[1])
IntMulRatio(a, ratio) == Trunc(a * ratio[1], ratio[2])
RoundDivRatio(a, ratio) == RoundHalfEven(a * ratio[2], ratio[1])
RoundMulRatio(a, ratio) == RoundHalfEven(a * ratio[1], ratio[2])

\* adjust_crop_rect_to_ratio, first step: the width is kept and the height
\* follows from the ratio tr, unless that height is more than the present
\* one; then the height is kept and the width follows.
FitToRatio(r, tr) ==
    IF IntDivRatio(r.w, tr) > r.h
    THEN QRect(r.x, r.y, IntMulRatio(r.h, tr), r.h)
    ELSE QRect(r.x, r.y, r.w, IntDivRatio(r.w, tr))

\* if new_rect.right() > bounds.right(): setRight(...); setWidth(...)
ClipRight(r, tr, bounds) ==
    IF Right(r) > bounds[1]
    THEN [SetRight(r, bounds[1]) EXCEPT !.w = IntMulRatio(r.h, tr)]
    ELSE r

\* if new_rect.bottom() > bounds.bottom(): setBottom(...); setHeight(...)
ClipBottom(r, tr, bounds) ==
    IF Bottom(r) > bounds[2]
    THEN [SetBottom(r, bounds[2]) EXCEPT !.h = IntDivRatio(r.w, tr)]
    ELSE r

\* adjust_crop_rect_to_ratio: the value of self._crop_rect after the call.
AdjustCropRectToRatio(rect, ratio, bounds) ==
    IF ratio = None \/ ~Truthy(rect) THEN rect
    ELSE Some(ClipBottom(ClipRight(FitToRatio(Val(rect), Val(ratio)),
                                   Val(ratio), bounds),
                         Val(ratio), bounds))

\* constrain_crop_rect: the rectangle moved back into the bounds, its width
\* and height kept.
MovedInside(r, bounds) ==
    QRect(Max(0, Min(bounds[1] - r.w, r.x)),
          Max(0, Min(bounds[2] - r.h, r.y)),
          r.w, r.h)

\* constrain_crop_rect: the value of self._crop_rect after the call.
ConstrainCropRect(rect, ratio, bounds) ==
    IF ~Truthy(rect) THEN rect
    ELSE IF ratio # None
    THEN AdjustCropRectToRatio(Some(MovedInside(Val(rect), bounds)), ratio, bounds)
    ELSE Some(MovedInside(Val(rect), bounds))

Corners == {"top_left", "top_right", "bottom_left", "bottom_right"}
Edges == {"left", "right", "top", "bottom"}

\* The handles in the order get_handle_at tries them.
HandleOrder ==
    <<"top_left", "top_right", "bottom_left", "bottom_right",
      "top", "bottom", "left", "right">>

\* The hit area of a handle of the rectangle r contains p.
HandleHit(handle, r, p) ==
    LET hs == CROP_HANDLE_SIZE
    IN CASE handle = "top_left" ->
              ContainsF(r.x - hs, r.y - hs, hs * 2, hs * 2, p)
         [] handle = "top_right" ->
              ContainsF(Right(r) - hs, r.y - hs, hs * 2, hs * 2, p)
         [] handle = "bottom_left" ->
              ContainsF(r.x - hs, Bottom(r) - hs, hs * 2, hs * 2, p)
         [] handle = "bottom_right" ->
              ContainsF(Right(r) - hs, Bottom(r) - hs, hs * 2, hs * 2, p)
         [] handle = "top" ->
              ContainsF(r.x + hs, r.y - hs, r.w - hs * 2, hs * 2, p)
         [] handle = "bottom" ->
              ContainsF(r.x + hs, Bottom(r) - hs, r.w - hs * 2, hs * 2, p)
         [] handle = "left" ->
              ContainsF(r.x - hs, r.y + hs, hs * 2, r.h - hs * 2, p)
         [] handle = "right" ->
              ContainsF(Right(r) - hs, r.y + hs, hs * 2, r.h - hs * 2, p)

\* The place in HandleOrder of the first handle whose hit area holds p.
FirstHit(r, p) == Least({k \in 1 .. Len(HandleOrder) : HandleHit(HandleOrder[k], r, p)})

\* get_handle_at(pos): None, or the first handle whose hit area holds pos,
\* or "move" inside the rectangle.
GetHandleAt(rect, pos) ==
    IF ~Truthy(rect) THEN None
    ELSE IF \E k \in 1 .. Len(HandleOrder) : HandleHit(HandleOrder[k], Val(rect), pos)
    THEN Some(HandleOrder[FirstHit(Val(rect), pos)])
    ELSE IF Contains(Val(rect), pos) THEN Some("move")
    ELSE None

\* QRect.center()
Center(r) == <<Trunc(2 * r.x + r.w - 1, 2), Trunc(2 * r.y + r.h - 1, 2)>>

\* get_anchor_point(handle, rect)
GetAnchorPoint(handle, r) ==
    CASE handle = "top_left" -> <<Right(r), Bottom(r)>>
      [] handle = "top_right" -> <<r.x, Bottom(r)>>
      [] handle = "bottom_left" -> <<Right(r), r.y>>
      [] handle = "bottom_right" -> <<r.x, r.y>>
      [] handle = "left" -> <<Center(r)[1] + (Right(r) - r.x) \div 2, Center(r)[2]>>
      [] handle = "right" -> <<Center(r)[1] - (Right(r) - r.x) \div 2, Center(r)[2]>>
      [] handle = "top" -> <<Center(r)[1], Center(r)[2] + (Bottom(r) - r.y) \div 2>>
      [] handle = "bottom" -> <<Center(r)[1], Center(r)[2] - (Bottom(r) - r.y) \div 2>>
      [] OTHER -> Center(r)

\* The mouse position clamped to the bounds of the photo.
Clamped(mouse, bounds) ==
    <<Max(0, Min(bounds[1], mouse[1])), Max(0, Min(bounds[2], mouse[2]))>>

\* resize_crop_rect_from_anchor, a corner handle: the width of the new
\* rectangle, the mouse m kept 10 away from the fixed edge.
CornerWidth(handle, fe, m) ==
    IF handle \in {"top_left", "bottom_left"}
    THEN fe.right - Min(m[1], fe.right - 10)
    ELSE Max(m[1], fe.left + 10) - fe.left

\* The same for the height.
CornerHeight(handle, fe, m) ==
    IF handle \in {"top_left", "top_right"}
    THEN fe.bottom - Min(m[2], fe.bottom - 10)
    ELSE Max(m[2], fe.top + 10) - fe.top

\* The size <<width, height>> cut to the ratio if there is one.
CutToRatio(width, height, ratio) ==
    IF ratio = None THEN <<width, height>>
    ELSE IF width * Val(ratio)[2] > height * Val(ratio)[1]
    THEN <<IntMulRatio(height, Val(ratio)), height>>
    ELSE <<width, IntDivRatio(width, Val(ratio))>>

\* The rectangle of that size hung on the two fixed edges of the handle.
HungOn(handle, fe, size) ==
    QRect(IF handle \in {"top_left", "bottom_left"} THEN fe.right - size[1] ELSE fe.left,
          IF handle \in {"top_left", "top_right"} THEN fe.bottom - size[2] ELSE fe.top,
          size[1], size[2])

\* resize_crop_rect_from_anchor, a corner handle: the new rectangle, cut to
\* the photo.
CornerRect(handle, fe, m, ratio, bounds) ==
    Intersected(HungOn(handle, fe,
                       CutToRatio(CornerWidth(handle, fe, m),
                                  CornerHeight(handle, fe, m), ratio)),
                QRect(0, 0, bounds[1], bounds[2]))

\* resize_crop_rect_from_anchor, the left or right edge with the ratio tr.
\* fixed is the x of the edge that stays, cy2 twice the y of the centre of
\* the rectangle at the press (a QRectF), far the x of the dragged edge.  The
\* record holds width, height, new_top, new_bottom and far (new_left or
\* new_right).
SideOf(left, fixed, width, height, new_top) ==
    [far |-> IF left THEN fixed - width ELSE fixed + width,
     w |-> width, h |-> height, top |-> new_top, bottom |-> new_top + height]

\* The height follows from the width, the rectangle stays centred.
SideCentred(left, fixed, cy2, width, height) ==
    SideOf(left, fixed, width, height, RoundHalfEven(cy2 - height, 2))

SideFit(left, fixed, cy2, far, tr) ==
    SideCentred(left, fixed, cy2,
                IF left THEN fixed - far ELSE far - fixed,
                RoundDivRatio(IF left THEN fixed - far ELSE far - fixed, tr))

\* if new_left < bounds.left() / if new_right > bounds.right(): ...
SideClampFar(s, left, fixed, cy2, tr, bounds) ==
    IF left /\ s.far < 0 THEN SideFit(left, fixed, cy2, 0, tr)
    ELSE IF ~left /\ s.far > bounds[1] THEN SideFit(left, fixed, cy2, bounds[1], tr)
    ELSE s

\* if new_top < bounds.top(): ... height = rect.bottom() - new_top
SideClampTop(s, left, fixed, bottom, tr) ==
    IF s.top < 0
    THEN SideOf(left, fixed, RoundMulRatio(bottom, tr), bottom, 0)
    ELSE s

\* if new_bottom > bounds.bottom(): ...
SideClampBottom(s, left, fixed, tr, bounds) ==
    IF s.bottom > bounds[2]
    THEN SideOf(left, fixed, RoundMulRatio(bounds[2] - s.top, tr),
                bounds[2] - s.top, s.top)
    ELSE s

SideRect(s, left, fixed) == QRect(IF left THEN s.far ELSE fixed, s.top, s.w, s.h)

SideRectRatio(handle, orig, m, tr, bounds) ==
    SideRect(
        SideClampBottom(
            SideClampTop(
                SideClampFar(
                    SideFit(handle = "left",
                            IF handle = "left" THEN orig.x + orig.w ELSE orig.x,
                            2 * orig.y + orig.h,
                            IF handle = "left"
                            THEN Min(m[1], orig.x + orig.w - 10)
                            ELSE Max(m[1], orig.x + 10),
                            tr),
                    handle = "left",
                    IF handle = "left" THEN orig.x + orig.w ELSE orig.x,
                    2 * orig.y + orig.h, tr, bounds),
                handle = "left",
                IF handle = "left" THEN orig.x + orig.w ELSE orig.x,
                orig.y + orig.h, tr),
            handle = "left",
            IF handle = "left" THEN orig.x + orig.w ELSE orig.x,
            tr, bounds),
        handle = "left",
        IF handle = "left" THEN orig.x + orig.w ELSE orig.x)

\* resize_crop_rect_from_anchor, the top or bottom edge with the ratio tr.
\* fixed is the y of the edge that stays, cx2 twice the x of the centre, far
\* the y of the dragged edge (new_top or new_bottom).
LevelOf(top, fixed, width, height, new_left, new_right) ==
    [far |-> IF top THEN fixed - height ELSE fixed + height,
     w |-> width, h |-> height, left |-> new_left, right |-> new_right]

\* The width follows from the height, the rectangle stays centred.
LevelCentred(top, fixed, width, height, new_left) ==
    LevelOf(top, fixed, width, height, new_left, new_left + width)

LevelFit(top, fixed, cx2, far, tr) ==
    LevelCentred(top, fixed,
                 RoundMulRatio(IF top THEN fixed - far ELSE far - fixed, tr),
                 IF top THEN fixed - far ELSE far - fixed,
                 RoundHalfEven(cx2 - RoundMulRatio(IF top THEN fixed - far ELSE far - fixed, tr), 2))

\* if new_top < bounds.top() / if new_bottom > bounds.bottom(): ...
LevelClampFar(s, top, fixed, cx2, tr, bounds) ==
    IF top /\ s.far < 0 THEN LevelFit(top, fixed, cx2, 0, tr)
    ELSE IF ~top /\ s.far > bounds[2] THEN LevelFit(top, fixed, cx2, bounds[2], tr)
    ELSE s

\* if new_left < bounds.left(): ... width = new_right - new_left
LevelClampLeft(s, top, fixed, tr) ==
    IF s.left < 0
    THEN LevelOf(top, fixed, s.right, RoundDivRatio(s.right, tr), 0, s.right)
    ELSE s

\* if new_right > bounds.right(): ...
LevelClampRight(s, top, fixed, tr, bounds) ==
    IF s.right > bounds[1]
    THEN LevelOf(top, fixed, bounds[1] - s.left,
                 RoundDivRatio(bounds[1] - s.left, tr), s.left, bounds[1])
    ELSE s

LevelRect(s, top, fixed) == QRect(s.left, IF top THEN s.far ELSE fixed, s.w, s.h)

LevelRectRatio(handle, orig, m, tr, bounds) ==
    LevelRect(
        LevelClampRight(
            LevelClampLeft(
                LevelClampFar(
                    LevelFit(handle = "top",
                             IF handle = "top" THEN orig.y + orig.h ELSE orig.y,
                             2 * orig.x + orig.w,
                             IF handle = "top"
                             THEN Min(m[2], orig.y + orig.h - 10)
                             ELSE Max(m[2], orig.y + 10),
                             tr),
                    handle = "top",
                    IF handle = "top" THEN orig.y + orig.h ELSE orig.y,
                    2 * orig.x + orig.w, tr, bounds),
                handle = "top",
                IF handle = "top" THEN orig.y + orig.h ELSE orig.y,
                tr),
            handle = "top",
            IF handle = "top" THEN orig.y + orig.h ELSE orig.y,
            tr, bounds),
        handle = "top",
        IF handle = "top" THEN orig.y + orig.h ELSE orig.y)

\* resize_crop_rect_from_anchor, an edge with free aspect: only the dragged
\* edge moves, 10 away from the opposite one at least, and all four are
\* clamped to the photo.
EdgeRectFree(handle, orig, m, bounds) ==
    QRect(Max(0, IF handle = "left" THEN Min(m[1], orig.x + orig.w - 10) ELSE orig.x),
          Max(0, IF handle = "top" THEN Min(m[2], orig.y + orig.h - 10) ELSE orig.y),
          Min(bounds[1], IF handle = "right" THEN Max(m[1], orig.x + 10) ELSE orig.x + orig.w)
            - Max(0, IF handle = "left" THEN Min(m[1], orig.x + orig.w - 10) ELSE orig.x),
          Min(bounds[2], IF handle = "bottom" THEN Max(m[2], orig.y + 10) ELSE orig.y + orig.h)
            - Max(0, IF handle = "top" THEN Min(m[2], orig.y + orig.h - 10) ELSE orig.y))

\* if new_rect.width() < self._min_crop_size or new_rect.height() <
\* self._min_crop_size: return -- the rectangle is kept as it is.
TooSmall(r) == r.w < MIN_CROP_SIZE \/ r.h < MIN_CROP_SIZE

\* The new rectangle is taken unless it is too small.
TakenUnlessSmall(rect, new_rect) == IF TooSmall(new_rect) THEN rect ELSE Some(new_rect)

\* resize_crop_rect_from_anchor(handle, anchor, mouse_scene_pos,
\* original_rect): the value of self._crop_rect after the call; m is the
\* mouse position clamped to the photo.
ResizeCropRectFromAnchor(rect, handle, m, orig, fe, ratio, bounds) ==
    IF handle \in Corners /\ fe # None
    THEN TakenUnlessSmall(rect, CornerRect(handle, Val(fe), m, ratio, bounds))
    ELSE IF handle \notin Edges THEN rect
    ELSE IF ratio = None
    THEN TakenUnlessSmall(rect, EdgeRectFree(handle, Val(orig), m, bounds))
    ELSE IF handle \in {"left", "right"}
    THEN TakenUnlessSmall(rect, SideRectRatio(handle, Val(orig), m, Val(ratio), bounds))
    ELSE TakenUnlessSmall(rect, LevelRectRatio(handle, Val(orig), m, Val(ratio), bounds))

\* The sizes of the images shown, the mouse positions, the aspect ratios
\* (None is free aspect) and the rectangles handed to set_crop_rect.
ImageSizes == {<<ImageW, ImageH>>, <<SmallImage, SmallImage>>}

MousePoints == {<<x, y>> : x \in MouseXs, y \in MouseYs}

CropRatios == {None, Some(<<5, 4>>), Some(<<3, 2>>)}

GivenRects == {QRect(0, 0, MIN_CROP_SIZE, MIN_CROP_SIZE)}

\* set_image(pixmap)
SetImage(size) ==
    /\ photo' = size
    /\ op' = Some("set_image")
    /\ UNCHANGED <<crop_mode, crop_rect, saved_crop_rect, crop_ratio, dragging,
                   drag_start, drag_handle, original_crop_rect, anchor_point,
                   fixed_edges>>

\* Initialize to 80% of image size, centered.
EightyPercent(width, height) ==
    QRect((width - Trunc(width * 8, 10)) \div 2,
          (height - Trunc(height * 8, 10)) \div 2,
          Trunc(width * 8, 10), Trunc(height * 8, 10))

\* StartRect without the adjustment to the ratio.
StartRectUnadjusted ==
    IF Truthy(saved_crop_rect) THEN saved_crop_rect
    ELSE Some(EightyPercent(photo[1], photo[2]))

\* The rectangle set_crop_mode(True) starts from: the saved one, or 80% of
\* the image, centred; adjusted to the ratio if there is one.
StartRect ==
    AdjustCropRectToRatio(
        IF Truthy(saved_crop_rect) THEN saved_crop_rect
        ELSE Some(EightyPercent(photo[1], photo[2])),
        crop_ratio, photo)

\* SetCropMode that keeps the temporary rectangle when crop mode is left.
SetCropModeKeepsRect(enabled) ==
    /\ crop_mode' = enabled
    /\ IF enabled
       THEN \E has_pixmap \in (IF photo = <<0, 0>> THEN BOOLEAN ELSE {TRUE}) :
               crop_rect' = IF has_pixmap THEN StartRect ELSE crop_rect
       ELSE crop_rect' = crop_rect
    /\ op' = Some("set_crop_mode")
    /\ UNCHANGED <<photo, saved_crop_rect, crop_ratio, dragging, drag_start,
                   drag_handle, original_crop_rect, anchor_point, fixed_edges>>

\* set_crop_mode(enabled).  Whether the empty pixmap of a viewer without an
\* image counts as true is left open.
SetCropMode(enabled) ==
    /\ crop_mode' = enabled
    /\ IF enabled
       THEN \E has_pixmap \in (IF photo = <<0, 0>> THEN BOOLEAN ELSE {TRUE}) :
               crop_rect' = IF has_pixmap THEN StartRect ELSE crop_rect
       ELSE crop_rect' = None
    /\ op' = Some("set_crop_mode")
    /\ UNCHANGED <<photo, saved_crop_rect, crop_ratio, dragging, drag_start,
                   drag_handle, original_crop_rect, anchor_point, fixed_edges>>

\* confirm_crop()
ConfirmCrop ==
    /\ saved_crop_rect' = IF Truthy(crop_rect) THEN crop_rect ELSE saved_crop_rect
    /\ crop_mode' = FALSE
    /\ crop_rect' = None
    /\ op' = Some("confirm_crop")
    /\ UNCHANGED <<photo, crop_ratio, dragging, drag_start, drag_handle,
                   original_crop_rect, anchor_point, fixed_edges>>

\* cancel_crop()
CancelCrop ==
    /\ crop_rect' = None
    /\ crop_mode' = FALSE
    /\ op' = Some("cancel_crop")
    /\ UNCHANGED <<photo, saved_crop_rect, crop_ratio, dragging, drag_start,
                   drag_handle, original_crop_rect, anchor_point, fixed_edges>>

\* set_crop_rect(rect)
SetCropRect(rect) ==
    /\ crop_rect' = Some(rect)
    /\ op' = Some("set_crop_rect")
    /\ UNCHANGED <<photo, crop_mode, saved_crop_rect, crop_ratio, dragging,
                   drag_start, drag_handle, original_crop_rect, anchor_point,
                   fixed_edges>>

\* set_crop_ratio(ratio)
SetCropRatio(ratio) ==
    /\ crop_ratio' = ratio
    /\ crop_rect' = IF ~Truthy(crop_rect) THEN crop_rect
                    ELSE AdjustCropRectToRatio(crop_rect, ratio, photo)
    /\ op' = Some("set_crop_ratio")
    /\ UNCHANGED <<photo, crop_mode, saved_crop_rect, dragging, drag_start,
                   drag_handle, original_crop_rect, anchor_point, fixed_edges>>

\* mousePressEvent, left button, at the scene position pos.
MousePress(pos) ==
    /\ IF crop_mode
       THEN /\ drag_handle' = GetHandleAt(crop_rect, pos)
            /\ IF drag_handle' # None
               THEN /\ dragging' = TRUE
                    /\ drag_start' = Some(pos)
                    /\ original_crop_rect' = crop_rect
                    /\ anchor_point' = Some(GetAnchorPoint(Val(drag_handle'), Val(crop_rect)))
                    /\ fixed_edges' =
                          IF Val(drag_handle') \in Corners
                          THEN Some([top |-> Val(crop_rect).y,
                                     bottom |-> Bottom(Val(crop_rect)),
                                     left |-> Val(crop_rect).x,
                                     right |-> Right(Val(crop_rect))])
                          ELSE None
               ELSE UNCHANGED <<dragging, drag_start, original_crop_rect,
                                anchor_point, fixed_edges>>
       ELSE UNCHANGED <<drag_handle, dragging, drag_start, original_crop_rect,
                        anchor_point, fixed_edges>>
    /\ op' = Some("mousePressEvent")
    /\ UNCHANGED <<photo, crop_mode, crop_rect, saved_crop_rect, crop_ratio>>

\* mouseReleaseEvent, left button.
MouseRelease ==
    /\ IF crop_mode /\ dragging
       THEN dragging' = FALSE /\ drag_handle' = None
       ELSE UNCHANGED <<dragging, drag_handle>>
    /\ op' = Some("mouseReleaseEvent")
    /\ UNCHANGED <<photo, crop_mode, crop_rect, saved_crop_rect, crop_ratio,
                   drag_start, original_crop_rect, anchor_point, fixed_edges>>

\* mouseMoveEvent at the scene position pos: while dragging, the rectangle is
\* moved or resized and then constrained.
MouseMove(pos) ==
    /\ IF crop_mode /\ dragging /\ Truthy(crop_rect)
       THEN IF drag_handle = Some("move")
            THEN /\ drag_start' = Some(pos)
                 /\ crop_rect' = ConstrainCropRect(
                        Some(Translated(Val(crop_rect),
                                        pos[1] - Val(drag_start)[1],
                                        pos[2] - Val(drag_start)[2])),
                        crop_ratio, photo)
            ELSE /\ drag_start' = drag_start
                 /\ crop_rect' = ConstrainCropRect(
                        IF drag_handle = None THEN crop_rect
                        ELSE ResizeCropRectFromAnchor(crop_rect, Val(drag_handle),
                                 Clamped(pos, photo), original_crop_rect,
                                 fixed_edges, crop_ratio, photo),
                        crop_ratio, photo)
       ELSE UNCHANGED <<drag_start, crop_rect>>
    /\ op' = Some("mouseMoveEvent")
    /\ UNCHANGED <<photo, crop_mode, saved_crop_rect, crop_ratio, dragging,
                   drag_handle, original_crop_rect, anchor_point, fixed_edges>>

\* One more method of the ImageViewer runs.
Counted ==
    /\ ops < MaxOps
    /\ ops' = ops + 1
    /\ UNCHANGED <<alignVars, callerVars, keyVars>>

\* The methods of the ImageViewer, called in any order.
NextCrop ==
    \/ (\E size \in ImageSizes : SetImage(size)) /\ Counted
    \/ (\E enabled \in BOOLEAN : SetCropMode(enabled)) /\ Counted
    \/ ConfirmCrop /\ Counted
    \/ CancelCrop /\ Counted
    \/ (\E rect \in GivenRects : SetCropRect(rect)) /\ Counted
    \/ (\E ratio \in CropRatios : SetCropRatio(ratio)) /\ Counted
    \/ (\E pos \in MousePoints : MousePress(pos)) /\ Counted
    \/ MouseRelease /\ Counted
    \/ (\E pos \in MousePoints : MouseMove(pos)) /\ Counted

SpecCrop == Init /\ [][NextCrop]_vars

\* The rectangle r lies inside the photo: its left and top are not before
\* those of the bounds, left + width and top + height not beyond the bounds'
\* right and bottom.
InsidePhoto(r) ==
    /\ r.x >= 0
    /\ r.y >= 0
    /\ r.x + r.w <= photo[1]
    /\ r.y + r.h <= photo[2]

\* The step is a mouse move that drags a non-empty crop rectangle over a
\* loaded image, so that constrain_crop_rect runs on a non-empty rectangle.
DragStep ==
    /\ op' = Some("mouseMoveEvent")
    /\ crop_mode /\ dragging /\ Truthy(crop_rect)
    /\ photo # <<0, 0>>

\* C16 as claimed: confirm_crop with a crop rectangle saves a copy of it and
\* leaves crop mode; cancel_crop leaves crop mode, drops the temporary
\* rectangle and keeps the saved one; and set_crop_mode(True), with an image
\* loaded and a rectangle saved, starts from a rectangle equal to the saved
\* one.
C16_RestartsFromConfirmed ==
    [][/\ (op' = Some("confirm_crop") /\ Truthy(crop_rect)) =>
              saved_crop_rect' = crop_rect /\ crop_mode' = FALSE
       /\ op' = Some("cancel_crop") =>
              /\ crop_mode' = FALSE
              /\ crop_rect' = None
              /\ saved_crop_rect' = saved_crop_rect
       /\ (/\ op' = Some("set_crop_mode") /\ crop_mode'
           /\ photo # <<0, 0>> /\ Truthy(saved_crop_rect)) =>
              crop_rect' = saved_crop_rect]_vars

\* C16 as amended: the same for confirm_crop and cancel_crop; and
\* set_crop_mode(True), with an image loaded and a rectangle saved, starts
\* from the saved rectangle when no aspect ratio is set, and from the saved
\* rectangle adjusted to the aspect ratio when one is set; the saved
\* rectangle itself is not changed.
C16_RestartsFromConfirmedAdjusted ==
    [][/\ (op' = Some("confirm_crop") /\ Truthy(crop_rect)) =>
              saved_crop_rect' = crop_rect /\ crop_mode' = FALSE
       /\ op' = Some("cancel_crop") =>
              /\ crop_mode' = FALSE
              /\ crop_rect' = None
              /\ saved_crop_rect' = saved_crop_rect
       /\ (/\ op' = Some("set_crop_mode") /\ crop_mode'
           /\ photo # <<0, 0>> /\ Truthy(saved_crop_rect)) =>
              /\ saved_crop_rect' = saved_crop_rect
              /\ crop_ratio = None => crop_rect' = saved_crop_rect
              /\ crop_ratio # None =>
                    crop_rect' = AdjustCropRectToRatio(saved_crop_rect, crop_ratio, photo)]_vars

\* C16 witness: crop mode has been entered again and the crop rectangle is
\* the confirmed one, which is not the rectangle crop mode starts from
\* without a saved one.
C16_Witness ==
    /\ op = Some("set_crop_mode")
    /\ crop_mode
    /\ Truthy(saved_crop_rect)
    /\ crop_rect = saved_crop_rect
    /\ Val(saved_crop_rect) # EightyPercent(photo[1], photo[2])

\* C17 as claimed: a mouse move that drags a non-empty crop rectangle leaves
\* the crop rectangle inside the photo, whatever the rectangle and the size
\* of the image; and with no aspect ratio set a move of the whole rectangle
\* keeps its width and height.
C17_ConstrainedInside ==
    [][DragStep =>
          /\ crop_rect' # None
          /\ InsidePhoto(Val(crop_rect'))
          /\ (crop_ratio = None /\ drag_handle = Some("move")) =>
                /\ Val(crop_rect').w = Val(crop_rect).w
                /\ Val(crop_rect').h = Val(crop_rect).h]_vars

\* C18 as claimed: a mouse press, move or release in crop mode that finds a
\* crop rectangle of at least 50 x 50 leaves one of at least 50 x 50.
C18_MinimumSizeKept ==
    [][(/\ op' \in {Some("mousePressEvent"), Some("mouseMoveEvent"),
                    Some("mouseReleaseEvent")}
        /\ crop_mode
        /\ Truthy(crop_rect)
        /\ ~TooSmall(Val(crop_rect))) =>
          /\ crop_rect' # None
          /\ ~TooSmall(Val(crop_rect'))]_vars

\* C21 as claimed: in every state reached through the methods of the
\* ImageViewer, set_crop_rect among them, the temporary crop rectangle is
\* None whenever crop mode is off.
C21_NoRectOutsideCropMode == crop_mode \/ crop_rect = None

\* C21 as amended: a method other than set_crop_rect that starts with crop
\* mode on or with no temporary rectangle ends with crop mode on or with no
\* temporary rectangle, so set_crop_mode(False), confirm_crop and cancel_crop
\* leave none; set_crop_rect stores its rectangle whatever the crop mode and
\* does not change the crop mode.
C21_NoRectUnlessSet ==
    [][/\ (op' # Some("set_crop_rect") /\ (crop_mode \/ crop_rect = None)) =>
              (crop_mode' \/ crop_rect' = None)
       /\ op' = Some("set_crop_rect") =>
              crop_rect' # None /\ crop_mode' = crop_mode]_vars

\* C21 witness: crop mode has been left by set_crop_mode(False) after a press
\* on a handle of the temporary rectangle, and no temporary rectangle is left.
C21_Witness ==
    /\ op = Some("set_crop_mode")
    /\ ~crop_mode
    /\ original_crop_rect # None
    /\ crop_rect = None

\* The mouse events of the ImageViewer interleaved with set_crop_mode,
\* confirm_crop and cancel_crop, on a viewer that is given images.
NextDrag ==
    \/ (\E size \in ImageSizes : SetImage(size)) /\ Counted
    \/ (\E enabled \in BOOLEAN : SetCropMode(enabled)) /\ Counted
    \/ ConfirmCrop /\ Counted
    \/ CancelCrop /\ Counted
    \/ (\E pos \in MousePoints : MousePress(pos)) /\ Counted
    \/ MouseRelease /\ Counted
    \/ (\E pos \in MousePoints : MouseMove(pos)) /\ Counted

SpecDrag == Init /\ [][NextDrag]_vars

\* C22 as claimed: in every state reached by mouse presses, moves and
\* releases interleaved with set_crop_mode, confirm_crop and cancel_crop,
\* _dragging is True only while crop mode is on, a crop rectangle exists and
\* _drag_handle names a handle; so leaving crop mode during a drag does not
\* leave _dragging True.
C22_DraggingOnlyInCropMode ==
    dragging => (crop_mode /\ crop_rect # None /\ drag_handle # None)

====
